---- MODULE Spec2Model ----
(***************************************************************************)
(* gevent.libuv.watcher: the libuv watcher layer.                          *)
(*                                                                         *)
(* One io watcher (one native uv_poll_t handle, "poll") with its           *)
(* multiplexed sub-watchers, one further native handle ("raw") that goes   *)
(* through the init / close-request / close-callback lifecycle on its own, *)
(* the process-wide _closing_handles set and the dispatch loop of          *)
(* io._io_callback; the fork and child watchers simulated with an async    *)
(* watcher each (native handles "async_fork", "async_child") and the loop  *)
(* thread that runs their callbacks; one timer watcher ("timer") and one   *)
(* OneShotCheck watcher ("check").                                         *)
(*                                                                         *)
(* The methods of the classes are operators from a state record to a state *)
(* record (a raised exception is the record's err field; the statements    *)
(* after the raising one are not executed).  The actions apply them to the *)
(* variables.                                                              *)
(***************************************************************************)
EXTENDS Integers, Sequences, FiniteSets

\* ------------------------------------------------------------------ bounds
MaxSubs == 2          \* sub-watchers created by multiplex() in one run
MaxFrameSubs == 3     \* sub-watchers created in the runs that close a non-last one
MaxCloseCalls == 2    \* cap of the per-handle uv_close() counter
MaxRuns == 2          \* cap of the OneShotCheck callback-run counter

\* ------------------------------------------------------- program constants
UV_READABLE == 1
UV_WRITABLE == 2
\* durations are in microseconds: 0.001 s, the least timeout the timer arms
MinTimerUs == 1000
\* the factor of int(seconds * 1000)
UsPerMs == 1000

Subs == 1..MaxFrameSubs
Masks == {UV_READABLE, UV_WRITABLE, UV_READABLE + UV_WRITABLE}
\* negative status codes libuv hands to the poll callback in place of events;
\* -9 & mask = mask for every mask below 8, -4 & mask = 0 for every mask below 4
Statuses == {-9, -4}
Handles == {"poll", "raw"}
\* what a user callback does when the dispatch loop invokes it
Callbacks == {"cb_plain", "cb_stop_self", "cb_close_self"}
\* the watchers simulated with an async watcher, and the handle of each
Sims == {"fork", "child"}
AsyncHandles == {"async_fork", "async_child"}
AllHandles == Handles \cup AsyncHandles \cup {"timer", "check"}
\* the after and repeat arguments a timer is constructed with, in microseconds
Afters == {-1, 0, 1, 999, 1000, 1001, 2500}
Repeats == {0, 1, 999, 1000, 2999}
\* what the user callback of the OneShotCheck does
OscCallbacks == {"cb_plain", "cb_raise"}
\* the (pid, status) pairs the loop reports for exited children
Payloads == {<<42, 0>>, <<42, 1>>}

VARIABLES
    nextId,          \* number of _multiplexwatcher objects created so far
    mwEvents,        \* _multiplexwatcher._events
    mwCallback,      \* _multiplexwatcher.callback ("None" or a callback)
    mwPassEvents,    \* _multiplexwatcher.pass_events ("False", "None", "True")
    mwRef,           \* _multiplexwatcher._watcher_ref is not None
    mwHeld,          \* the caller of multiplex() was handed the object
    mwList,          \* io._multiplex_watchers as read through the instance
    hasMW,           \* the instance attribute _multiplex_watchers is bound
    ioEvents,        \* io._events
    ioWatcher,       \* io._watcher is not None
    ioCallback,      \* io.callback is not None
    uvType,          \* uv_handle_t.type is set (the handle was initialized)
    uvClosing,       \* uv_is_closing(handle)
    uvActive,        \* uv_is_active(handle)
    uvPollEvents,    \* the event mask the poll handle is armed with (0: none)
    uvCloseCalls,    \* number of uv_close() calls made on the handle
    uvClosePending,  \* close callbacks libuv still owes for the handle
    uvData,          \* uv_handle_t.data is not NULL
    closingHandles,  \* the module's _closing_handles set
    err,             \* exception raised by the last operation, or "none"
    pc,              \* "idle", or inside io._io_callback: "dispatch", "done"
    dispEvents,      \* the events argument of the running _io_callback
    dispIdx,         \* position of the list iterator of its for loop
    invoked,         \* per sub-watcher: callback invocations in this dispatch
    dispStarted,     \* sub-watchers in the list and started when it began
    smRegistered,    \* the simulated watcher is in the loop's collection
    smCallback,      \* fork/child .callback is not None
    smPayload,       \* child: <<_rpid, _rstatus>>, or <<>> before the first
    smLastCb,        \* context the user callback last ran in, or "none"
    asWatcher,       \* the async watcher's _watcher is not None
    asCallback,      \* the async watcher's callback is not None
    uvAsyncCb,       \* uv_async_t.async_cb is not NULL
    uvRef,           \* uv_has_ref(handle)
    uvAsPending,     \* uv_async_send was called and the loop has not run yet
    nat,             \* native calls made by the last operation
    seen,            \* what the last operation on these watchers saw before
    loopState,       \* the loop thread: "running" callbacks or "waiting"
    tmWatcher,       \* timer._watcher is not None
    tmAfter,         \* timer._after, in microseconds
    tmRepeat,        \* timer._repeat, in microseconds
    tmCallback,      \* timer.callback is not None
    tmAgain,         \* timer._again as read through the instance
    tmArmed,         \* <<timeout, repeat>> in ms the native timer holds
    tmRequest,       \* <<after, repeat>> the timer was constructed with
    oscCallback,     \* OneShotCheck.callback: "None" or the wrapped callback
    oscRuns,         \* user callback runs since the last OneShotCheck.start
    oscSeenActive,   \* watcher.active as the user callback last saw it
    lastOp           \* the last operation and what it saw before it ran

extVars == <<smRegistered, smCallback, smPayload, smLastCb, asWatcher,
             asCallback, uvAsyncCb, uvRef, uvAsPending, nat, seen, loopState,
             tmWatcher, tmAfter, tmRepeat, tmCallback, tmAgain, tmArmed,
             tmRequest, oscCallback, oscRuns, oscSeenActive>>
objVars == <<nextId, mwEvents, mwCallback, mwPassEvents, mwRef, mwHeld, mwList,
             hasMW,
             ioEvents, ioWatcher, ioCallback, uvType, uvClosing, uvActive,
             uvPollEvents, uvCloseCalls, uvClosePending, uvData,
             closingHandles, err, extVars>>
dispVars == <<pc, dispEvents, dispIdx, invoked, dispStarted>>
vars == <<objVars, dispVars, lastOp>>

\* ------------------------------------------------------------ bit masks
RECURSIVE BitAndNat(_, _)
BitAndNat(a, b) ==
    IF a = 0 \/ b = 0 THEN 0
    ELSE (IF a % 2 = 1 /\ b % 2 = 1 THEN 1 ELSE 0)
         + 2 * BitAndNat(a \div 2, b \div 2)

RECURSIVE BitOrNat(_, _)
BitOrNat(a, b) ==
    IF a = 0 THEN b
    ELSE IF b = 0 THEN a
    ELSE (IF a % 2 = 1 \/ b % 2 = 1 THEN 1 ELSE 0)
         + 2 * BitOrNat(a \div 2, b \div 2)

\* Python's & on ints (two's complement of unbounded width), mask >= 0:
\* a negative a is ~(-a-1), and ~x & m = m - (x & m).
BitAnd(a, mask) ==
    IF a >= 0 THEN BitAndNat(a, mask)
    ELSE mask - BitAndNat(-a - 1, mask)

\* ------------------------------------------------------- the state record
State ==
    [nextId |-> nextId, mwEvents |-> mwEvents, mwCallback |-> mwCallback,
     mwPassEvents |-> mwPassEvents, mwRef |-> mwRef, mwHeld |-> mwHeld,
     mwList |-> mwList,
     hasMW |-> hasMW, ioEvents |-> ioEvents, ioWatcher |-> ioWatcher,
     ioCallback |-> ioCallback, uvType |-> uvType, uvClosing |-> uvClosing,
     uvActive |-> uvActive, uvPollEvents |-> uvPollEvents,
     uvCloseCalls |-> uvCloseCalls, uvClosePending |-> uvClosePending,
     uvData |-> uvData, closingHandles |-> closingHandles, err |-> err,
     seen |-> seen,
     smRegistered |-> smRegistered, smCallback |-> smCallback, smPayload |-> smPayload,
     smLastCb |-> smLastCb, asWatcher |-> asWatcher, asCallback |-> asCallback,
     uvAsyncCb |-> uvAsyncCb, uvRef |-> uvRef, uvAsPending |-> uvAsPending,
     nat |-> nat, loopState |-> loopState, tmWatcher |-> tmWatcher,
     tmAfter |-> tmAfter, tmRepeat |-> tmRepeat, tmCallback |-> tmCallback,
     tmAgain |-> tmAgain, tmArmed |-> tmArmed, tmRequest |-> tmRequest, oscCallback |-> oscCallback,
     oscRuns |-> oscRuns, oscSeenActive |-> oscSeenActive]

Apply(s) ==
    /\ nextId' = s.nextId
    /\ mwEvents' = s.mwEvents
    /\ mwCallback' = s.mwCallback
    /\ mwPassEvents' = s.mwPassEvents
    /\ mwRef' = s.mwRef
    /\ mwHeld' = s.mwHeld
    /\ mwList' = s.mwList
    /\ hasMW' = s.hasMW
    /\ ioEvents' = s.ioEvents
    /\ ioWatcher' = s.ioWatcher
    /\ ioCallback' = s.ioCallback
    /\ uvType' = s.uvType
    /\ uvClosing' = s.uvClosing
    /\ uvActive' = s.uvActive
    /\ uvPollEvents' = s.uvPollEvents
    /\ uvCloseCalls' = s.uvCloseCalls
    /\ uvClosePending' = s.uvClosePending
    /\ uvData' = s.uvData
    /\ closingHandles' = s.closingHandles
    /\ err' = s.err
    /\ smRegistered' = s.smRegistered
    /\ smCallback' = s.smCallback
    /\ smPayload' = s.smPayload
    /\ smLastCb' = s.smLastCb
    /\ asWatcher' = s.asWatcher
    /\ asCallback' = s.asCallback
    /\ uvAsyncCb' = s.uvAsyncCb
    /\ uvRef' = s.uvRef
    /\ uvAsPending' = s.uvAsPending
    /\ nat' = s.nat
    /\ seen' = s.seen
    /\ loopState' = s.loopState
    /\ tmWatcher' = s.tmWatcher
    /\ tmAfter' = s.tmAfter
    /\ tmRepeat' = s.tmRepeat
    /\ tmCallback' = s.tmCallback
    /\ tmAgain' = s.tmAgain
    /\ tmArmed' = s.tmArmed
    /\ tmRequest' = s.tmRequest
    /\ oscCallback' = s.oscCallback
    /\ oscRuns' = s.oscRuns
    /\ oscSeenActive' = s.oscSeenActive

Raise(s, e) == [s EXCEPT !.err = e]

InList(q, i) == \E k \in 1..Len(q) : q[k] = i

\* list.remove(x): drops the first occurrence
RECURSIVE ListRemove(_, _)
ListRemove(q, i) ==
    IF q = <<>> THEN <<>>
    ELSE IF Head(q) = i THEN Tail(q)
    ELSE <<Head(q)>> \o ListRemove(Tail(q), i)

\* ----------------------------------------------------------- libuv (native)
\* uv_close(handle, cb): the handle stops, is flagged closing, and libuv owes
\* one call of the close callback.
uv_close(s, h) ==
    [s EXCEPT !.uvClosing[h] = TRUE,
              !.uvActive[h] = FALSE,
              !.uvPollEvents = IF h = "poll" THEN 0 ELSE @,
              !.uvCloseCalls[h] = @ + 1,
              !.uvClosePending[h] = @ + 1]

\* uv_poll_start(handle, events, cb)
uv_poll_start(s, events) ==
    [s EXCEPT !.uvActive["poll"] = TRUE, !.uvPollEvents = events]

\* uv_poll_stop(handle)
uv_poll_stop(s) ==
    [s EXCEPT !.uvActive["poll"] = FALSE, !.uvPollEvents = 0]

\* ------------------------------------------------- module level, class watcher
\* _uv_close_callback(handle): set.remove raises KeyError for a missing element
_uv_close_callback(s, h) ==
    IF h \in s.closingHandles
    THEN [s EXCEPT !.closingHandles = @ \ {h}]
    ELSE Raise(s, "KeyError")

\* watcher._watcher_ffi_close(ffi_watcher)
_watcher_ffi_close_no_closing_check(s, h) ==
    LET s1 == IF s.uvType[h]
              THEN uv_close([s EXCEPT !.closingHandles = @ \cup {h}], h)
              ELSE s
    IN [s1 EXCEPT !.uvData[h] = FALSE]

_watcher_ffi_close_no_type_check(s, h) ==
    LET s1 == IF ~s.uvClosing[h]
              THEN uv_close([s EXCEPT !.closingHandles = @ \cup {h}], h)
              ELSE s
    IN [s1 EXCEPT !.uvData[h] = FALSE]

_watcher_ffi_close_no_add(s, h) ==
    LET s1 == IF s.uvType[h] /\ ~s.uvClosing[h] THEN uv_close(s, h) ELSE s
    IN [s1 EXCEPT !.uvData[h] = FALSE]

_watcher_ffi_close(s, h) ==
    LET s1 == IF s.uvType[h] /\ ~s.uvClosing[h]
              THEN uv_close([s EXCEPT !.closingHandles = @ \cup {h}], h)
              ELSE s
    IN [s1 EXCEPT !.uvData[h] = FALSE]

\* watcher._watcher_ffi_init(args): self._watcher_init(loop.ptr, watcher, *args);
\* the native init sets the type field unless it fails
_watcher_ffi_init(s, h, fail) ==
    IF fail THEN Raise(s, "UVFuncallError")
    ELSE [s EXCEPT !.uvType[h] = TRUE]

\* watcher._watcher_ffi_stop() of the io watcher
_watcher_ffi_stop(s) ==
    IF s.ioWatcher THEN uv_poll_stop(s) ELSE s

\* io._watcher_ffi_start()
io_watcher_ffi_start(s) == uv_poll_start(s, s.ioEvents)

\* ---------------------------------- the base watcher (gevent._ffi.watcher)
\* watcher.active
active(s) == s.ioWatcher /\ s.uvActive["poll"]

\* watcher.start(callback, *args) as io._io_start calls it
watcher_start(s) ==
    IF ~s.ioWatcher THEN Raise(s, "UseAfterCloseError")
    ELSE io_watcher_ffi_start([s EXCEPT !.ioCallback = TRUE])

\* watcher.stop(): no-op unless started
watcher_stop(s) ==
    IF ~s.ioCallback THEN s
    ELSE [_watcher_ffi_stop(s) EXCEPT !.ioCallback = FALSE]

\* watcher.close(): stop, drop the native handle, request its close
watcher_close(s) ==
    IF ~s.ioWatcher THEN s
    ELSE _watcher_ffi_close([watcher_stop(s) EXCEPT !.ioWatcher = FALSE], "poll")

\* ------------------------------------------------------------------ class io
\* io._set_events(events); fail: the native uv_poll_start returns < 0, which
\* libuv_error_wrapper turns into UVFuncallError
_set_events(s, events, fail) ==
    IF events = s.ioEvents THEN s
    ELSE LET s1 == [s EXCEPT !.ioEvents = events]
         IN IF active(s1)
            THEN IF fail THEN Raise(s1, "UVFuncallError")
                 ELSE uv_poll_start(s1, events)
            ELSE s1

\* the loop of io._calc_and_update_events: events |= watcher.events
RECURSIVE UnionEvents(_, _)
UnionEvents(q, ev) ==
    IF q = <<>> THEN 0
    ELSE BitOrNat(ev[Head(q)], UnionEvents(Tail(q), ev))

\* io._calc_and_update_events()
_calc_and_update_events(s, fail) ==
    _set_events(s, UnionEvents(s.mwList, s.mwEvents), fail)

\* io.multiplex(events): the new object is handed to the caller only when
\* nothing raised; the class attribute _multiplex_watchers = () has no append
multiplex(s, events, fail) ==
    IF ~s.hasMW THEN Raise(s, "AttributeError")
    ELSE LET i == s.nextId + 1
             s1 == [s EXCEPT !.nextId = i,
                             !.mwEvents[i] = events,
                             !.mwRef[i] = TRUE,
                             !.mwList = Append(@, i)]
             s2 == _calc_and_update_events(s1, fail)
         IN IF s2.err # "none" THEN s2
            ELSE [s2 EXCEPT !.mwHeld[i] = TRUE]

\* io._io_start(): self.start(self._io_callback, pass_events=True)
_io_start(s) == watcher_start(s)

\* io._io_maybe_stop()
_io_maybe_stop_always(s) == watcher_stop(s)

_io_maybe_stop(s) ==
    IF \E k \in 1..Len(s.mwList) : s.mwCallback[s.mwList[k]] # "None"
    THEN s
    ELSE watcher_stop(s)

\* io.close(): del of an attribute the instance does not hold raises
io_close(s) ==
    LET s1 == watcher_close(s)
    IN IF s1.hasMW
       THEN [s1 EXCEPT !.hasMW = FALSE, !.mwList = <<>>]
       ELSE Raise(s1, "AttributeError")

\* io._multiplex_closed(watcher)
_multiplex_closed_recalc_only(s, i, fail) ==
    IF ~s.hasMW THEN Raise(s, "AttributeError")
    ELSE IF ~InList(s.mwList, i) THEN Raise(s, "ValueError")
    ELSE _calc_and_update_events(
             [s EXCEPT !.mwList = ListRemove(@, i)], fail)

_multiplex_closed_no_recalc(s, i, fail) ==
    IF ~s.hasMW THEN Raise(s, "AttributeError")
    ELSE IF ~InList(s.mwList, i) THEN Raise(s, "ValueError")
    ELSE LET s1 == [s EXCEPT !.mwList = ListRemove(@, i)]
         IN IF s1.mwList = <<>> THEN io_close(watcher_stop(s1)) ELSE s1

_multiplex_closed_close_always(s, i, fail) ==
    IF ~s.hasMW THEN Raise(s, "AttributeError")
    ELSE IF ~InList(s.mwList, i) THEN Raise(s, "ValueError")
    ELSE io_close(watcher_stop([s EXCEPT !.mwList = ListRemove(@, i)]))

_multiplex_closed(s, i, fail) ==
    IF ~s.hasMW THEN Raise(s, "AttributeError")
    ELSE IF ~InList(s.mwList, i) THEN Raise(s, "ValueError")
    ELSE LET s1 == [s EXCEPT !.mwList = ListRemove(@, i)]
         IN IF s1.mwList = <<>>
            THEN io_close(watcher_stop(s1))
            ELSE _calc_and_update_events(s1, fail)

\* ----------------------------------------------- class io._multiplexwatcher
\* _multiplexwatcher.start(callback, *args, **kwargs)
mw_start(s, i, cb, pe) ==
    LET s1 == [s EXCEPT !.mwPassEvents[i] = pe, !.mwCallback[i] = cb]
    IN IF s1.mwRef[i] /\ ~active(s1) THEN _io_start(s1) ELSE s1

\* _multiplexwatcher.stop()
mw_stop(s, i) ==
    LET s1 == [s EXCEPT !.mwCallback[i] = "None", !.mwPassEvents[i] = "None"]
    IN IF s1.mwRef[i] THEN _io_maybe_stop(s1) ELSE s1

\* _multiplexwatcher.close(): _watcher_ref is cleared only when
\* _multiplex_closed returned
mw_close(s, i, fail) ==
    IF s.mwRef[i]
    THEN LET s1 == _multiplex_closed(s, i, fail)
         IN IF s1.err # "none" THEN s1 ELSE [s1 EXCEPT !.mwRef[i] = FALSE]
    ELSE s

\* ------------------------------------------------------------------ Init
\* ------------------------------------------------- libuv: ref, async handles
\* the native calls an operation makes are recorded in nat
Native(s, name) == [s EXCEPT !.nat = @ \cup {name}]

uv_ref(s, h) == Native([s EXCEPT !.uvRef[h] = TRUE], "uv_ref")

uv_unref(s, h) == Native([s EXCEPT !.uvRef[h] = FALSE], "uv_unref")

\* uv_async_send(handle): marks the handle pending and wakes the loop
uv_async_send(s, w) ==
    Native([s EXCEPT !.uvAsPending[w] = TRUE], "uv_async_send")

\* ------------------------------------------------------ class watcher: ref
AsyncOf(w) == IF w = "fork" THEN "async_fork" ELSE "async_child"

\* self._watcher is not None, for the watcher object o: the fork and child
\* watchers never create one (_watcher_create returns None), an async watcher
\* has one until it is closed
HasWatcher(s, o) ==
    CASE o \in Sims -> FALSE
      [] o = "async_fork" -> s.asWatcher["fork"]
      [] o = "async_child" -> s.asWatcher["child"]
      [] OTHER -> FALSE

\* the decorator _base.only_if_watcher: the call is made only if self._watcher
only_if_watcher(s, o) == HasWatcher(s, o)

_watcher_ffi_ref_unguarded(s, o) ==
    IF o \in Sims THEN Raise(Native(s, "uv_ref"), "TypeError") ELSE uv_ref(s, o)

_watcher_ffi_unref_unguarded(s, o) ==
    IF o \in Sims THEN Raise(Native(s, "uv_unref"), "TypeError")
    ELSE uv_unref(s, o)

\* watcher._watcher_ffi_ref()
_watcher_ffi_ref(s, o) == IF only_if_watcher(s, o) THEN uv_ref(s, o) ELSE s

\* watcher._watcher_ffi_unref()
_watcher_ffi_unref(s, o) == IF only_if_watcher(s, o) THEN uv_unref(s, o) ELSE s

\* watcher._set_ref(value)
_set_ref(s, o, value) ==
    IF value THEN _watcher_ffi_ref(s, o) ELSE _watcher_ffi_unref(s, o)

\* ------------------------------------------------------------ class async_
\* async_._watcher_ffi_start(): self._watcher.async_cb = self._watcher_callback
async_watcher_ffi_start(s, w) ==
    IF ~s.asWatcher[w] THEN Raise(s, "AttributeError")
    ELSE [s EXCEPT !.uvAsyncCb[w] = TRUE]

\* async_._watcher_ffi_stop(): async_cb = NULL, then _watcher_ffi_unref()
async_watcher_ffi_stop(s, w) ==
    IF ~s.asWatcher[w] THEN Raise(s, "AttributeError")
    ELSE _watcher_ffi_unref([s EXCEPT !.uvAsyncCb[w] = FALSE], AsyncOf(w))

\* watcher.start(callback, *args) of the async watcher
async_start(s, w) ==
    IF ~s.asWatcher[w] THEN Raise(s, "UseAfterCloseError")
    ELSE async_watcher_ffi_start([s EXCEPT !.asCallback[w] = TRUE], w)

\* watcher.stop() of the async watcher
async_stop(s, w) ==
    IF ~s.asCallback[w] THEN s
    ELSE LET s1 == async_watcher_ffi_stop(s, w)
         IN IF s1.err # "none" THEN s1 ELSE [s1 EXCEPT !.asCallback[w] = FALSE]

\* watcher.close() of the async watcher
async_close(s, w) ==
    IF ~s.asWatcher[w] THEN s
    ELSE LET s1 == async_stop(s, w)
         IN IF s1.err # "none" THEN s1
            ELSE _watcher_ffi_close([s1 EXCEPT !.asWatcher[w] = FALSE],
                                    AsyncOf(w))

send_unchecked(s, w) == uv_async_send(s, w)

\* async_.send(): uv_is_closing(self._watcher) is asked first; with _watcher
\* None the call itself raises TypeError (None is not a handle pointer)
send(s, w) ==
    IF ~s.asWatcher[w] THEN Raise(s, "TypeError")
    ELSE IF s.uvClosing[AsyncOf(w)] THEN Raise(s, "Exception")
    ELSE uv_async_send(s, w)

\* ------------------------------------------- class _SimulatedWithAsyncMixin
\* fork._register_loop_callback / child._register_loop_callback
_register_loop_callback(s, w) == [s EXCEPT !.smRegistered[w] = TRUE]

\* fork._unregister_loop_callback (set.remove, KeyError swallowed) /
\* child._unregister_loop_callback (loop._unregister_child_watcher)
_unregister_loop_callback(s, w) == [s EXCEPT !.smRegistered[w] = FALSE]

sim_start_no_register(s, w) ==
    async_start([s EXCEPT !.smCallback[w] = TRUE], w)

\* _SimulatedWithAsyncMixin.start(cb, *args)
sim_start(s, w) ==
    async_start([_register_loop_callback(s, w) EXCEPT !.smCallback[w] = TRUE],
                w)

\* _SimulatedWithAsyncMixin.stop()
sim_stop(s, w) ==
    async_stop([_unregister_loop_callback(s, w) EXCEPT !.smCallback[w] = FALSE],
               w)

\* _SimulatedWithAsyncMixin.close(): closes the async watcher, nothing else
sim_close(s, w) == async_close(s, w)

\* the user callback runs in the context ctx
user_callback(s, w, ctx) == [s EXCEPT !.smLastCb[w] = ctx]

_on_fork_direct(s) == user_callback(s, "fork", "trigger")

\* fork._on_fork()
_on_fork(s) == send(s, "fork")

_set_waitpid_status_no_send(s, p) == [s EXCEPT !.smPayload = p]

\* child._set_waitpid_status(pid, status)
_set_waitpid_status(s, p) == send([s EXCEPT !.smPayload = p], "child")

\* -------------------------------------------------------------- class timer
\* int(seconds * 1000) of a duration held in microseconds: int() truncates
\* toward zero
ToMs(us) ==
    IF us >= 0 THEN us \div UsPerMs ELSE 0 - ((0 - us) \div UsPerMs)

timer_watcher_ffi_init_no_clamp(s, after, repeat) ==
    [s EXCEPT !.uvType["timer"] = TRUE, !.tmAfter = after, !.tmRepeat = repeat]

\* timer._watcher_ffi_init(args)
timer_watcher_ffi_init(s, after, repeat) ==
    [s EXCEPT !.uvType["timer"] = TRUE,
              !.tmAfter = IF after # 0 /\ after < MinTimerUs
                          THEN MinTimerUs ELSE after,
              !.tmRepeat = IF repeat # 0 /\ repeat < MinTimerUs
                           THEN MinTimerUs ELSE repeat]

\* uv_timer_start(handle, cb, timeout, repeat)
uv_timer_start(s, timeout, repeat) ==
    Native([s EXCEPT !.uvActive["timer"] = TRUE,
                     !.tmArmed = <<timeout, repeat>>], "uv_timer_start")

\* uv_timer_again(handle): fails (unnoticed, the call is not wrapped) on a
\* timer never started, restarts a repeating timer with its repeat value as
\* the timeout, leaves a non-repeating one alone
uv_timer_again(s) ==
    Native(IF s.tmArmed # <<>> /\ s.tmArmed[2] # 0
           THEN [s EXCEPT !.uvActive["timer"] = TRUE,
                          !.tmArmed = <<s.tmArmed[2], s.tmArmed[2]>>]
           ELSE s, "uv_timer_again")

\* timer._watcher_ffi_start()
timer_watcher_ffi_start(s, fail) ==
    IF s.tmAgain THEN uv_timer_again(s)
    ELSE IF fail THEN Raise(Native(s, "uv_timer_start"), "TypeError")
    ELSE uv_timer_start(s, ToMs(s.tmAfter), ToMs(s.tmRepeat))

\* watcher.active of the timer
timer_active(s) == s.tmWatcher /\ s.uvActive["timer"]

\* watcher.start(callback, *args) of the timer
timer_start(s, fail) ==
    timer_watcher_ffi_start([s EXCEPT !.tmCallback = TRUE], fail)

\* watcher.stop() of the timer
timer_stop(s) ==
    IF ~s.tmCallback THEN s
    ELSE Native([s EXCEPT !.uvActive["timer"] = FALSE, !.tmCallback = FALSE],
                "uv_timer_stop")

again_always_restart(s, fail) ==
    [timer_start([s EXCEPT !.tmAgain = TRUE], fail) EXCEPT !.tmAgain = FALSE]

\* timer.again(callback, *args): "del self._again" in the finally clause
\* makes the class attribute (False) visible again, raise or no raise
again(s, fail) ==
    IF ~timer_active(s) THEN timer_start(s, fail)
    ELSE [timer_start([s EXCEPT !.tmAgain = TRUE], fail)
             EXCEPT !.tmAgain = FALSE]

\* ------------------------------------------------------- class OneShotCheck
\* watcher.stop() of the check watcher, with watcher._watcher_ffi_stop
osc_stop(s) ==
    IF s.oscCallback = "None" THEN s
    ELSE Native([s EXCEPT !.uvActive["check"] = FALSE,
                          !.oscCallback = "None"], "uv_check_stop")

\* the user callback runs: it sees watcher.active, and may raise
osc_user_callback(s, cb) ==
    LET s1 == [s EXCEPT !.oscSeenActive = s.uvActive["check"],
                        !.oscRuns = @ + 1]
    IN IF cb = "cb_raise" THEN Raise(s1, "UserError") ELSE s1

_callback_no_stop(s) == osc_user_callback(s, s.oscCallback)

\* the closure _callback of OneShotCheck.start: self.stop(), then
\* callback(*args)
_callback(s) == osc_user_callback(osc_stop(s), s.oscCallback)

\* OneShotCheck.start(callback, *args): check.start(self, _callback, *args),
\* with watcher._watcher_ffi_start
osc_start(s, cb) ==
    Native([s EXCEPT !.oscCallback = cb, !.uvActive["check"] = TRUE,
                     !.oscRuns = 0], "uv_check_start")

\* nothing seen yet
Pre0 ==
    [started |-> FALSE, registered |-> FALSE, open |-> FALSE,
     closing |-> FALSE, pending |-> FALSE, waiting |-> FALSE,
     lastCb |-> "none", payload |-> <<>>, hadWatcher |-> FALSE,
     value |-> FALSE, tmActive |-> FALSE]

Init ==
    /\ nextId = 0
    /\ mwEvents = [i \in Subs |-> 0]
    /\ mwCallback = [i \in Subs |-> "None"]
    /\ mwPassEvents = [i \in Subs |-> "False"]
    /\ mwRef = [i \in Subs |-> FALSE]
    /\ mwHeld = [i \in Subs |-> FALSE]
    /\ mwList = <<>>
    /\ hasMW = TRUE
    /\ ioEvents \in Masks
    /\ ioWatcher = TRUE
    /\ ioCallback = FALSE
    /\ uvType = [h \in AllHandles |-> h \notin {"raw", "timer"}]
    /\ uvClosing = [h \in AllHandles |-> FALSE]
    /\ uvActive = [h \in AllHandles |-> h \in AsyncHandles]
    /\ uvPollEvents = 0
    /\ uvCloseCalls = [h \in AllHandles |-> 0]
    /\ uvClosePending = [h \in AllHandles |-> 0]
    /\ uvData = [h \in AllHandles |-> h \notin {"raw", "timer"}]
    /\ closingHandles = {}
    /\ err = "none"
    /\ pc = "idle"
    /\ dispEvents = 0
    /\ dispIdx = 0
    /\ invoked = [i \in Subs |-> 0]
    /\ dispStarted = {}
    /\ smRegistered = [w \in Sims |-> FALSE]
    /\ smCallback = [w \in Sims |-> FALSE]
    /\ smPayload = <<>>
    /\ smLastCb = [w \in Sims |-> "none"]
    /\ asWatcher = [w \in Sims |-> TRUE]
    /\ asCallback = [w \in Sims |-> FALSE]
    /\ uvAsyncCb = [w \in Sims |-> FALSE]
    /\ uvRef = [h \in AllHandles |-> TRUE]
    /\ uvAsPending = [w \in Sims |-> FALSE]
    /\ nat = {}
    /\ seen = Pre0
    /\ loopState = "running"
    /\ tmWatcher = FALSE
    /\ tmAfter = 0
    /\ tmRepeat = 0
    /\ tmCallback = FALSE
    /\ tmAgain = FALSE
    /\ tmArmed = <<>>
    /\ tmRequest = <<>>
    /\ oscCallback = "None"
    /\ oscRuns = 0
    /\ oscSeenActive = FALSE
    /\ lastOp = [op |-> "init", sub |-> 0, h |-> "none", wasActive |-> FALSE,
                 wasOpen |-> TRUE, closesBefore |-> 0, pendingBefore |-> FALSE,
                 eventsBefore |-> 0, listBefore |-> <<>>, arg |-> 0]

\* the state an operation starts from: no exception is pending
S0 == [State EXCEPT !.err = "none"]

\* what the operation saw before it ran
Op(op, sub, h, arg) ==
    [op |-> op, sub |-> sub, h |-> h, wasActive |-> active(State),
     wasOpen |-> ioWatcher,
     closesBefore |-> uvCloseCalls["poll"],
     pendingBefore |-> (h \in Handles /\ uvClosePending[h] > 0),
     eventsBefore |-> ioEvents, listBefore |-> mwList, arg |-> arg]

Started(s) == {i \in Subs : InList(s.mwList, i) /\ s.mwCallback[i] # "None"}

\* --------------------------------------------------------------- actions
Multiplex ==
    /\ pc = "idle"
    /\ nextId < MaxSubs
    /\ \E events \in Masks, fail \in BOOLEAN :
          /\ Apply(multiplex(S0, events, fail))
          /\ lastOp' = Op("multiplex", nextId + 1, "none", events)
    /\ UNCHANGED dispVars

MwStart ==
    /\ pc = "idle"
    /\ \E i \in Subs, cb \in Callbacks, pe \in {"None", "True"} :
          /\ mwHeld[i]
          /\ Apply(mw_start(S0, i, cb, pe))
          /\ lastOp' = Op("mw_start", i, "none", 0)
    /\ UNCHANGED dispVars

\* MwStart with the one callback that does nothing when invoked, for the
\* specifications without event dispatch
MwStartPlain ==
    /\ pc = "idle"
    /\ \E i \in Subs, pe \in {"None", "True"} :
          /\ mwHeld[i]
          /\ Apply(mw_start(S0, i, "cb_plain", pe))
          /\ lastOp' = Op("mw_start", i, "none", 0)
    /\ UNCHANGED dispVars

MwStop ==
    /\ pc = "idle"
    /\ \E i \in Subs :
          /\ mwHeld[i]
          /\ Apply(mw_stop(S0, i))
          /\ lastOp' = Op("mw_stop", i, "none", 0)
    /\ UNCHANGED dispVars

MwClose ==
    /\ pc = "idle"
    /\ \E i \in Subs, fail \in BOOLEAN :
          /\ mwHeld[i]
          /\ Apply(mw_close(S0, i, fail))
          /\ lastOp' = Op("mw_close", i, "none", 0)
    /\ UNCHANGED dispVars

IoClose ==
    /\ pc = "idle"
    /\ Apply(io_close(S0))
    /\ lastOp' = Op("io_close", 0, "poll", 0)
    /\ UNCHANGED dispVars

\* the native init of the second handle
NativeInit ==
    /\ pc = "idle"
    /\ ~uvType["raw"]
    /\ uvCloseCalls["raw"] = 0
    /\ \E fail \in BOOLEAN :
          /\ Apply(_watcher_ffi_init(S0, "raw", fail))
          /\ lastOp' = Op("ffi_init", 0, "raw", 0)
    /\ UNCHANGED dispVars

\* a close request on a handle no watcher object holds any more
FfiClose ==
    /\ pc = "idle"
    /\ \E h \in Handles :
          /\ h = "poll" => ~ioWatcher
          /\ uvCloseCalls[h] < MaxCloseCalls
          /\ Apply(_watcher_ffi_close(S0, h))
          /\ lastOp' = Op("ffi_close", 0, h, 0)
    /\ UNCHANGED dispVars

\* the loop runs one close callback libuv owes
UvCloseCallback ==
    /\ pc = "idle"
    /\ \E h \in Handles :
          /\ uvClosePending[h] > 0
          /\ Apply(_uv_close_callback(
                 [S0 EXCEPT !.uvClosePending[h] = @ - 1], h))
          /\ lastOp' = Op("uv_close_callback", 0, h, 0)
    /\ UNCHANGED dispVars

\* ------------------------------------------------------- io._io_callback
\* send_event = (events & watcher.events) or events < 0
send_event(events, wevents) == BitAnd(events, wevents) # 0 \/ events < 0

\* the poll handle reports readiness (a subset of the armed mask) or a
\* negative status; io._io_callback(events) starts its for loop
IoEvent ==
    /\ pc = "idle"
    /\ active(State)
    /\ ioCallback
    /\ \E ev \in {e \in Masks : BitAnd(e, uvPollEvents) = e} \cup Statuses :
          /\ dispEvents' = ev
          /\ lastOp' = Op("io_event", 0, "poll", ev)
    /\ pc' = "dispatch"
    /\ dispIdx' = 1
    /\ invoked' = [i \in Subs |-> 0]
    /\ dispStarted' = Started(State)
    /\ err' = "none"
    /\ UNCHANGED <<nextId, mwEvents, mwCallback, mwPassEvents, mwRef, mwHeld,
                   mwList, hasMW, ioEvents, ioWatcher, ioCallback, uvType,
                   uvClosing, uvActive, uvPollEvents, uvCloseCalls,
                   uvClosePending, uvData, closingHandles, extVars>>

\* what the invoked user callback does
run_callback(s, w, fail) ==
    CASE s.mwCallback[w] = "cb_stop_self" -> mw_stop(s, w)
      [] s.mwCallback[w] = "cb_close_self" -> mw_close(s, w, fail)
      [] OTHER -> s

\* one turn of "for watcher in self._multiplex_watchers": the list iterator
\* reads the live list at its index
DispatchStep ==
    /\ pc = "dispatch"
    /\ IF dispIdx > Len(mwList)
       THEN /\ pc' = "done"
            /\ lastOp' = Op("loop_end", 0, "none", 0)
            /\ UNCHANGED <<objVars, dispEvents, dispIdx, invoked, dispStarted>>
       ELSE LET w == mwList[dispIdx] IN
            /\ dispIdx' = dispIdx + 1
            /\ UNCHANGED <<dispEvents, dispStarted>>
            /\ IF mwCallback[w] = "None"
               THEN /\ lastOp' = Op("skip_stopped", w, "none", 0)
                    /\ UNCHANGED <<objVars, pc, invoked>>
               ELSE IF ~mwRef[w]
               THEN /\ err' = "AssertionError"
                    /\ pc' = "done"
                    /\ lastOp' = Op("assert", w, "none", 0)
                    /\ UNCHANGED <<nextId, mwEvents, mwCallback, mwPassEvents,
                                   mwRef, mwHeld, mwList, hasMW, ioEvents,
                                   ioWatcher, ioCallback, uvType, uvClosing,
                                   uvActive, uvPollEvents, uvCloseCalls,
                                   uvClosePending, uvData, closingHandles,
                                   extVars, invoked>>
               ELSE IF ~send_event(dispEvents, mwEvents[w])
               THEN /\ lastOp' = Op("skip_mask", w, "none", 0)
                    /\ UNCHANGED <<objVars, pc, invoked>>
               ELSE \E fail \in BOOLEAN :
                    LET s1 == run_callback(S0, w, fail) IN
                    /\ Apply(s1)
                    /\ invoked' = [invoked EXCEPT ![w] = @ + 1]
                    /\ pc' = IF s1.err # "none" THEN "done" ELSE "dispatch"
                    /\ lastOp' = Op(CASE mwCallback[w] = "cb_stop_self" -> "mw_stop"
                                      [] mwCallback[w] = "cb_close_self" -> "mw_close"
                                      [] OTHER -> "call",
                                    w, "none",
                                    IF mwPassEvents[w] = "True"
                                    THEN dispEvents ELSE 0)

\* io._io_callback returns
DispatchReturn ==
    /\ pc = "done"
    /\ pc' = "idle"
    /\ dispEvents' = 0
    /\ dispIdx' = 0
    /\ invoked' = [i \in Subs |-> 0]
    /\ dispStarted' = {}
    /\ lastOp' = Op("return", 0, "none", 0)
    /\ UNCHANGED objVars

\* -------------------------------- the simulated watchers and the loop thread
\* what an operation on the simulated watcher w saw before it ran, with the
\* payload p it was given
Pre(w, p) ==
    [Pre0 EXCEPT !.started = smCallback[w] /\ uvAsyncCb[w],
                 !.registered = smRegistered[w],
                 !.open = asWatcher[w],
                 !.closing = uvClosing[AsyncOf(w)],
                 !.pending = uvAsPending[w],
                 !.waiting = loopState = "waiting",
                 !.lastCb = smLastCb[w],
                 !.payload = p]

\* the state an operation of these watchers starts from: no exception is
\* pending, no native call was made yet
From(pre) == [S0 EXCEPT !.nat = {}, !.seen = pre]

\* user code runs on the loop thread, between two polls
UserCode == pc = "idle" /\ loopState = "running"

SimStartOf(w) ==
    /\ UserCode
    /\ Apply(sim_start(From(Pre(w, <<>>)), w))
    /\ lastOp' = Op("sim_start", 0, w, 0)
    /\ UNCHANGED dispVars

SimStart == \E w \in Sims : SimStartOf(w)

SimStopOf(w) ==
    /\ UserCode
    /\ Apply(sim_stop(From(Pre(w, <<>>)), w))
    /\ lastOp' = Op("sim_stop", 0, w, 0)
    /\ UNCHANGED dispVars

SimStop == \E w \in Sims : SimStopOf(w)

SimCloseOf(w) ==
    /\ UserCode
    /\ Apply(sim_close(From(Pre(w, <<>>)), w))
    /\ lastOp' = Op("sim_close", 0, w, 0)
    /\ UNCHANGED dispVars

SimClose == \E w \in Sims : SimCloseOf(w)

\* the loop is torn down: the handle of an async watcher is closed under it
AsyncFfiCloseOf(w) ==
    /\ UserCode
    /\ asWatcher[w]
    /\ ~uvClosing[AsyncOf(w)]
    /\ Apply(_watcher_ffi_close(From(Pre(w, <<>>)), AsyncOf(w)))
    /\ lastOp' = Op("ffi_close", 0, AsyncOf(w), 0)
    /\ UNCHANGED dispVars

AsyncFfiClose == \E w \in Sims : AsyncFfiCloseOf(w)

\* user code assigns watcher.ref, on a simulated watcher or on its async watcher
SetRefOf(o) ==
    /\ UserCode
    /\ \E value \in BOOLEAN :
          /\ Apply(_set_ref(From([Pre0 EXCEPT
                                     !.hadWatcher = HasWatcher(State, o),
                                     !.value = value]), o, value))
          /\ lastOp' = Op("set_ref", 0, o, 0)
    /\ UNCHANGED dispVars

SetRef == \E o \in Sims \cup AsyncHandles : SetRefOf(o)

\* user code calls send() on the async watcher of w
AsyncSendOf(w) ==
    /\ UserCode
    /\ Apply(send(From(Pre(w, <<>>)), w))
    /\ lastOp' = Op("send", 0, w, 0)
    /\ UNCHANGED dispVars

AsyncSend == \E w \in Sims : AsyncSendOf(w)

\* the post-fork hook walks loop._fork_watchers, in whatever context the
\* fork happened
OnFork ==
    /\ pc = "idle"
    /\ smRegistered["fork"]
    /\ Apply(_on_fork(From(Pre("fork", <<>>))))
    /\ lastOp' = Op("_on_fork", 0, "fork", 0)
    /\ UNCHANGED dispVars

\* the child-exit facility reports (pid, status) to a registered child watcher
SetWaitpidStatus ==
    /\ pc = "idle"
    /\ smRegistered["child"]
    /\ \E p \in Payloads :
          /\ Apply(_set_waitpid_status(From(Pre("child", p)), p))
          /\ lastOp' = Op("_set_waitpid_status", 0, "child", 0)
    /\ UNCHANGED dispVars

\* the loop thread blocks in the poll
LoopWait ==
    /\ UserCode
    /\ Apply([State EXCEPT !.loopState = "waiting"])
    /\ lastOp' = Op("loop_wait", 0, "none", 0)
    /\ UNCHANGED dispVars

\* the poll returns for another reason than a wakeup of these watchers
LoopWake ==
    /\ pc = "idle"
    /\ loopState = "waiting"
    /\ Apply([State EXCEPT !.loopState = "running"])
    /\ lastOp' = Op("loop_wake", 0, "none", 0)
    /\ UNCHANGED dispVars

\* the poll returns for the wakeup of w: libuv clears the pending flag and
\* calls async_cb unless it is NULL; the callback of the async watcher is the
\* user callback start() handed to it
LoopTickOf(w) ==
    /\ pc = "idle"
    /\ uvAsPending[w]
    /\ ~uvClosing[AsyncOf(w)]
    /\ LET s1 == [From(Pre(w, smPayload)) EXCEPT !.uvAsPending[w] = FALSE,
                                                  !.loopState = "running"]
       IN IF uvAsyncCb[w]
          THEN /\ Apply(user_callback(s1, w, "loop"))
               /\ lastOp' = Op("async_callback", 0, w, 0)
          ELSE /\ Apply(s1)
               /\ lastOp' = Op("async_no_callback", 0, w, 0)
    /\ UNCHANGED dispVars

LoopTick == \E w \in Sims : LoopTickOf(w)

\* the fork and the child watcher with the loop thread
NextSim ==
    \/ SimStart
    \/ SimStop
    \/ SimClose
    \/ AsyncFfiClose
    \/ OnFork
    \/ SetWaitpidStatus
    \/ LoopWait
    \/ LoopWake
    \/ LoopTick

SpecSim == Init /\ [][NextSim]_vars

\* the fork watcher and its async watcher, with the calls user code makes on
\* the async watcher itself
NextAsync ==
    \/ SimStartOf("fork")
    \/ SimStopOf("fork")
    \/ SimCloseOf("fork")
    \/ AsyncFfiCloseOf("fork")
    \/ AsyncSendOf("fork")
    \/ SetRefOf("fork")
    \/ SetRefOf("async_fork")
    \/ OnFork
    \/ LoopWait
    \/ LoopWake
    \/ LoopTickOf("fork")

SpecAsync == Init /\ [][NextAsync]_vars

\* the child watcher alone
NextChild ==
    \/ SimStartOf("child")
    \/ SimStopOf("child")
    \/ SimCloseOf("child")
    \/ AsyncFfiCloseOf("child")
    \/ SetWaitpidStatus
    \/ LoopWait
    \/ LoopWake
    \/ LoopTickOf("child")

\* the loop thread does not stay in the poll while a wakeup is pending
SpecChildLive ==
    Init /\ [][NextChild]_vars /\ WF_vars(LoopTickOf("child"))

\* --------------------------------------------- the timer and the check phase
\* what an operation on the timer saw before it ran
PreTimer == [Pre0 EXCEPT !.tmActive = timer_active(State)]

\* timer(loop, after, repeat) is constructed
TimerInit ==
    /\ UserCode
    /\ ~tmWatcher
    /\ \E after \in Afters, repeat \in Repeats :
          /\ Apply(timer_watcher_ffi_init(
                 [From(PreTimer) EXCEPT !.tmWatcher = TRUE,
                                        !.tmRequest = <<after, repeat>>],
                 after, repeat))
          /\ lastOp' = Op("timer_init", 0, "timer", 0)
    /\ UNCHANGED dispVars

TimerStart ==
    /\ UserCode
    /\ tmWatcher
    /\ \E fail \in BOOLEAN :
          /\ Apply(timer_start(From(PreTimer), fail))
          /\ lastOp' = Op("timer_start", 0, "timer", 0)
    /\ UNCHANGED dispVars

TimerStop ==
    /\ UserCode
    /\ tmWatcher
    /\ Apply(timer_stop(From(PreTimer)))
    /\ lastOp' = Op("timer_stop", 0, "timer", 0)
    /\ UNCHANGED dispVars

TimerAgain ==
    /\ UserCode
    /\ tmWatcher
    /\ \E fail \in BOOLEAN :
          /\ Apply(again(From(PreTimer), fail))
          /\ lastOp' = Op("timer_again", 0, "timer", 0)
    /\ UNCHANGED dispVars

\* the timer expires: libuv stops it, re-arms it when it repeats, and runs
\* the callback, which does nothing here
TimerFire ==
    /\ UserCode
    /\ timer_active(State)
    /\ Apply([From(PreTimer) EXCEPT
                 !.uvActive["timer"] = tmArmed[2] # 0,
                 !.tmArmed = IF tmArmed[2] # 0
                             THEN <<tmArmed[2], tmArmed[2]>> ELSE @])
    /\ lastOp' = Op("timer_fire", 0, "timer", 0)
    /\ UNCHANGED dispVars

OscStart ==
    /\ UserCode
    /\ \E cb \in OscCallbacks :
          /\ Apply(osc_start(From(Pre0), cb))
          /\ lastOp' = Op("osc_start", 0, "check", 0)
    /\ UNCHANGED dispVars

OscStop ==
    /\ UserCode
    /\ Apply(osc_stop(From(Pre0)))
    /\ lastOp' = Op("osc_stop", 0, "check", 0)
    /\ UNCHANGED dispVars

\* the check phase of a loop iteration: libuv calls the callback of the
\* active check handle, which is _callback
CheckFire ==
    /\ UserCode
    /\ uvActive["check"]
    /\ oscCallback # "None"
    /\ oscRuns < MaxRuns
    /\ Apply(_callback(From(Pre0)))
    /\ lastOp' = Op("check_fire", 0, "check", 0)
    /\ UNCHANGED dispVars

NextTimer ==
    \/ TimerInit
    \/ TimerStart
    \/ TimerStop
    \/ TimerAgain
    \/ TimerFire
    \/ OscStart
    \/ OscStop
    \/ CheckFire

SpecTimer == Init /\ [][NextTimer]_vars

Next ==
    \/ Multiplex
    \/ MwStart
    \/ MwStop
    \/ MwClose
    \/ IoClose
    \/ NativeInit
    \/ FfiClose
    \/ UvCloseCallback
    \/ IoEvent
    \/ DispatchStep
    \/ DispatchReturn
    \/ SimStart
    \/ SimStop
    \/ SimClose
    \/ AsyncFfiClose
    \/ SetRef
    \/ AsyncSend
    \/ OnFork
    \/ SetWaitpidStatus
    \/ LoopWait
    \/ LoopWake
    \/ LoopTick
    \/ TimerInit
    \/ TimerStart
    \/ TimerStop
    \/ TimerAgain
    \/ TimerFire
    \/ OscStart
    \/ OscStop
    \/ CheckFire

Spec == Init /\ [][Next]_vars

\* the io watcher and its sub-watchers without event dispatch
NextMux ==
    \/ Multiplex
    \/ MwStartPlain
    \/ MwStop
    \/ MwClose
    \/ IoClose

SpecMux == Init /\ [][NextMux]_vars

\* sub-watchers created, started and closed, up to MaxFrameSubs of them: the
\* runs in which a sub-watcher is closed while two others remain
MultiplexFrame ==
    /\ pc = "idle"
    /\ nextId < MaxFrameSubs
    /\ \E events \in Masks, fail \in BOOLEAN :
          /\ Apply(multiplex(S0, events, fail))
          /\ lastOp' = Op("multiplex", nextId + 1, "none", events)
    /\ UNCHANGED dispVars

\* start(cb) without the pass_events keyword
MwStartFrame ==
    /\ pc = "idle"
    /\ \E i \in Subs :
          /\ mwHeld[i]
          /\ Apply(mw_start(S0, i, "cb_plain", "None"))
          /\ lastOp' = Op("mw_start", i, "none", 0)
    /\ UNCHANGED dispVars

NextFrame ==
    \/ MultiplexFrame
    \/ MwStartFrame
    \/ MwClose

SpecFrame == Init /\ [][NextFrame]_vars

\* the io watcher with event dispatch
NextIo ==
    \/ Multiplex
    \/ MwStart
    \/ MwStop
    \/ MwClose
    \/ IoClose
    \/ IoEvent
    \/ DispatchStep
    \/ DispatchReturn

SpecIo == Init /\ [][NextIo]_vars

\* the close protocol of the native handles
NextHandle ==
    \/ Multiplex
    \/ MwClose
    \/ IoClose
    \/ NativeInit
    \/ FfiClose
    \/ UvCloseCallback

SpecHandle == Init /\ [][NextHandle]_vars

\* ================================================================ claims

\* C1 as stated: after each multiplex(mask) and each MultiplexHandle.close()
\* call that returned, io._events equals the bitwise union of the masks of
\* the sub-watchers that remain (0 when none remains).
C1_MaskIsUnionAfterEachCall ==
    (lastOp.op \in {"multiplex", "mw_close"} /\ err = "none")
        => ioEvents = UnionEvents(mwList, mwEvents)

\* C1 amended: while at least one sub-watcher remains, io._events equals the
\* union of the remaining masks; the close() that removes the last
\* sub-watcher closes the io watcher and leaves io._events as it was.
C1_MaskIsUnionWhileSubWatchersRemain ==
    /\ mwList # <<>> => ioEvents = UnionEvents(mwList, mwEvents)
    /\ (lastOp.op = "mw_close" /\ lastOp.listBefore = <<lastOp.sub>>)
          => (ioEvents = lastOp.eventsBefore /\ ~ioWatcher)

\* a close() that left a sub-watcher behind and shrank the mask
C1_Witness ==
    /\ lastOp.op = "mw_close"
    /\ err = "none"
    /\ mwList # <<>>
    /\ ioEvents # lastOp.eventsBefore
    /\ ioEvents = UnionEvents(mwList, mwEvents)

\* C2: the MultiplexHandle.close() call that removes the last sub-watcher
\* leaves the io watcher stopped and has called uv_close() on its handle
\* (which is then in _closing_handles) before it returns.
C2_LastCloseClosesHandleInCall ==
    (lastOp.op = "mw_close" /\ lastOp.listBefore = <<lastOp.sub>>)
        => /\ err = "none"
           /\ ~active(State)
           /\ ~ioCallback
           /\ ~uvActive["poll"]
           /\ ~ioWatcher
           /\ uvClosing["poll"]
           /\ uvCloseCalls["poll"] = lastOp.closesBefore + 1
           /\ "poll" \in closingHandles

\* the last sub-watcher was closed while the io watcher was polling
C2_Witness ==
    /\ lastOp.op = "mw_close"
    /\ lastOp.listBefore = <<lastOp.sub>>
    /\ lastOp.wasActive
    /\ uvCloseCalls["poll"] = 1
    /\ uvClosePending["poll"] = 1

\* C3: uv_close() is called at most once per handle, and at most one close
\* is outstanding per handle, however often its close is requested.
C3_AtMostOneNativeClose ==
    \A h \in Handles : uvCloseCalls[h] <= 1 /\ uvClosePending[h] <= 1

\* a second close request arrived while the first was still pending
C3_Witness ==
    /\ lastOp.op = "ffi_close"
    /\ lastOp.pendingBefore
    /\ uvCloseCalls[lastOp.h] = 1
    /\ uvClosePending[lastOp.h] = 1

\* C4: a handle whose type field is unset never had uv_close() called on it
\* and is not in _closing_handles.
C4_NoNativeCloseOnUninitialized ==
    \A h \in Handles :
        ~uvType[h] => /\ uvCloseCalls[h] = 0
                      /\ ~uvClosing[h]
                      /\ h \notin closingHandles

\* a close request was made on the handle that was never initialized
C4_Witness ==
    /\ lastOp.op = "ffi_close"
    /\ lastOp.h = "raw"
    /\ ~uvType["raw"]
    /\ ~uvData["raw"]

\* C5: _closing_handles holds exactly the handles with a uv_close() whose
\* callback has not run yet, and _uv_close_callback finds its handle in the
\* set and removes it.
C5_ClosingSetIsPendingCloses ==
    /\ closingHandles = {h \in Handles : uvClosePending[h] > 0}
    /\ lastOp.op = "uv_close_callback"
          => (err = "none" /\ lastOp.h \notin closingHandles)

\* a close callback ran for a closed handle and took it out of the set
C5_Witness ==
    /\ lastOp.op = "uv_close_callback"
    /\ lastOp.pendingBefore
    /\ uvCloseCalls[lastOp.h] = 1
    /\ lastOp.h \notin closingHandles

\* C6: when _io_callback(events) with events >= 0 has returned without an
\* exception, the sub-watchers whose callback it invoked are exactly those
\* that were started and whose mask intersects events.
C6_ExactlyIntersectingInvoked ==
    (pc = "done" /\ err = "none" /\ dispEvents >= 0)
        => \A i \in Subs :
              invoked[i] >= 1
                  <=> (i \in dispStarted /\ BitAnd(dispEvents, mwEvents[i]) # 0)

\* C7 (in its weakest reading: the started sub-watchers): when
\* _io_callback(status) with status < 0 has returned without an exception,
\* every sub-watcher that was started has been invoked, whatever its mask.
C7_NegativeStatusToEverySubWatcher ==
    (pc = "done" /\ err = "none" /\ dispEvents < 0)
        => \A i \in dispStarted : invoked[i] >= 1

\* C8: when _io_callback has returned without an exception, every
\* sub-watcher still in the list, still started and matching the event was
\* invoked exactly once, and none was invoked twice.
C8_EachInterestedInvokedOnce ==
    (pc = "done" /\ err = "none")
        => /\ \A i \in Started(State) :
                 send_event(dispEvents, mwEvents[i]) => invoked[i] = 1
           /\ \A i \in Subs : invoked[i] <= 1

\* C9: io.close() on an io watcher that is already closed raises nothing and
\* calls uv_close() no further time.
C9_SecondCloseIsSilent ==
    (lastOp.op = "io_close" /\ ~lastOp.wasOpen)
        => (err = "none" /\ uvCloseCalls["poll"] = lastOp.closesBefore)

\* C10: after _multiplexwatcher.stop() the sub-watcher has no callback and
\* nothing was raised; if it still refers to its owner, the owner is stopped
\* when none of the owner's sub-watchers is started and is polling when one
\* is; uv_close() was not called and the owner keeps its native handle.
C10_StopStopsOwnerOnlyWhenNoneStarted ==
    lastOp.op = "mw_stop"
        => /\ err = "none"
           /\ mwCallback[lastOp.sub] = "None"
           /\ uvCloseCalls["poll"] = lastOp.closesBefore
           /\ ioWatcher = lastOp.wasOpen
           /\ mwRef[lastOp.sub]
                 => /\ Started(State) = {} => (~active(State) /\ ~ioCallback)
                    /\ Started(State) # {}
                          => (active(State) /\ lastOp.wasActive)

\* the last started sub-watcher was stopped and the owner stopped polling
C10_Witness ==
    /\ lastOp.op = "mw_stop"
    /\ mwRef[lastOp.sub]
    /\ lastOp.wasActive
    /\ ~active(State)
    /\ ioWatcher
    /\ uvCloseCalls["poll"] = 0

\* ---------------------------------------------------------------- C11
\* a notification, a callback run and the ways a started watcher ends
ChildNotified(p) ==
    /\ lastOp.op = "_set_waitpid_status"
    /\ seen.payload = p
    /\ seen.started
    /\ ~seen.closing
    /\ seen.waiting

ChildCallbackSaw(p) ==
    /\ lastOp.op = "async_callback"
    /\ lastOp.h = "child"
    /\ seen.payload = p
    /\ smLastCb["child"] = "loop"

ChildCancelled ==
    \/ ~(smCallback["child"] /\ uvAsyncCb["child"])
    \/ uvClosing["async_child"]

\* C11: a child-exit notification (pid, status) given to a started child
\* watcher while the loop thread waits in the poll stores the payload and
\* marks the wakeup pending, and from there the user callback is eventually
\* run by a loop tick that sees this payload -- unless, before that tick, a
\* later notification replaced the payload or user code stopped the watcher
\* or the handle was closed.  The pending wakeup is not lost.
C11_ChildExitEventuallyDelivered ==
    \A p \in Payloads :
       /\ [](ChildNotified(p) =>
               smPayload = p /\ uvAsPending["child"] /\ err = "none")
       /\ ChildNotified(p) ~>
              (ChildCallbackSaw(p) \/ smPayload # p \/ ChildCancelled)

\* a tick delivered a payload to the callback of the started child watcher
\* out of the poll
C11_Witness ==
    /\ lastOp.op = "async_callback"
    /\ lastOp.h = "child"
    /\ seen.payload \in Payloads
    /\ seen.waiting
    /\ seen.pending
    /\ smLastCb["child"] = "loop"

\* ---------------------------------------------------------------- C12
\* C12: fork._on_fork and child._set_waitpid_status never run the user
\* callback in the context that triggers them: the call makes no native call
\* but uv_async_send, leaves the record of the callback's last run as it
\* was, and when it raises nothing the wakeup is pending; the user callback
\* only ever runs from a tick of the loop thread.
C12_NotifyNeverRunsUserCallback ==
    /\ \A w \in Sims : smLastCb[w] # "trigger"
    /\ lastOp.op \in {"_on_fork", "_set_waitpid_status"} =>
          /\ smLastCb[lastOp.h] = seen.lastCb
          /\ nat \subseteq {"uv_async_send"}
          /\ err = "none" => uvAsPending[lastOp.h] /\ nat = {"uv_async_send"}
          /\ loopState = IF seen.waiting THEN "waiting" ELSE "running"
    /\ lastOp.op = "async_callback" =>
          smLastCb[lastOp.h] = "loop" /\ loopState = "running"

\* the post-fork hook reached a started fork watcher whose callback had not
\* run yet, and left it so, with the wakeup pending
C12_Witness ==
    /\ lastOp.op = "_on_fork"
    /\ seen.started
    /\ err = "none"
    /\ uvAsPending["fork"]
    /\ smLastCb["fork"] = "none"

C14_CloseStopsFirst ==
    lastOp.op = "sim_close" /\ seen.started =>
        ~smRegistered[lastOp.h] /\ ~smCallback[lastOp.h]

\* ---------------------------------------------------------------- C15
\* C15: send() on an async watcher whose handle is closing or closed raises
\* an error and makes no uv_async_send call; on a live handle it calls
\* uv_async_send and raises nothing (send() called directly or by _on_fork).
C15_SendFailsOnClosingHandle ==
    lastOp.op \in {"send", "_on_fork"} =>
        IF seen.closing \/ ~seen.open
        THEN err # "none" /\ nat = {} /\ uvAsPending[lastOp.h] = seen.pending
        ELSE err = "none" /\ nat = {"uv_async_send"} /\ uvAsPending[lastOp.h]

\* send() on a watcher that still holds its handle while the handle is closing
C15_Witness ==
    /\ lastOp.op = "send"
    /\ seen.closing
    /\ seen.open
    /\ err = "Exception"

\* ---------------------------------------------------------------- C16
\* C16: when the native re-arm fails during multiplex(mask), or during the
\* mask recomputation after a MultiplexHandle.close() that is not the last,
\* on an active IoWatcher, the error reaches the caller and the IoWatcher's
\* sub-watcher list and stored event mask are as they were before the call.
C16_FailedRearmLeavesStateUnchanged ==
    lastOp.op \in {"multiplex", "mw_close"} /\ err = "UVFuncallError" =>
        mwList = lastOp.listBefore /\ ioEvents = lastOp.eventsBefore

\* ---------------------------------------------------------------- C17
\* the whole milliseconds the statement gives for a requested duration
ClaimedMs(us) ==
    IF us = 0 THEN 0 ELSE IF us < MinTimerUs THEN 1 ELSE us \div UsPerMs

\* C17: the timeout and the repeat a timer is armed with are, in whole
\* milliseconds, 0 for a request of 0, 1 for a non-zero request below one
\* millisecond and the truncated millisecond value otherwise; a non-zero
\* request is never armed as 0, and the construction that clamps raises
\* nothing.
C17_TimerArmedInWholeMs ==
    /\ lastOp.op = "timer_init" => err = "none"
    /\ "uv_timer_start" \in nat /\ err = "none" =>
          /\ tmArmed = <<ClaimedMs(tmRequest[1]), ClaimedMs(tmRequest[2])>>
          /\ \A k \in 1..2 : tmRequest[k] # 0 => tmArmed[k] # 0

\* a timer asked for less than a millisecond was started and is armed with 1
C17_Witness ==
    /\ lastOp.op = "timer_start"
    /\ err = "none"
    /\ tmRequest[1] > 0
    /\ tmRequest[1] < MinTimerUs
    /\ tmArmed[1] = 1

\* ---------------------------------------------------------------- C18
\* C18: again() on a timer that is not active does what start() does: one
\* uv_timer_start call with the stored after and repeat, never
\* uv_timer_again; again() on an active timer calls uv_timer_again only; the
\* _again flag is never left set, so that start() always calls
\* uv_timer_start.
C18_AgainOnInactiveIsStart ==
    /\ ~tmAgain
    /\ lastOp.op = "timer_again" /\ ~seen.tmActive =>
          /\ nat = {"uv_timer_start"}
          /\ tmCallback
          /\ err = "none" =>
                /\ timer_active(State)
                /\ tmArmed = <<ToMs(tmAfter), ToMs(tmRepeat)>>
    /\ lastOp.op = "timer_again" /\ seen.tmActive =>
          nat = {"uv_timer_again"} /\ err = "none"
    /\ lastOp.op = "timer_start" => nat = {"uv_timer_start"}

\* again() armed a timer that was not active
C18_Witness ==
    /\ lastOp.op = "timer_again"
    /\ ~seen.tmActive
    /\ err = "none"
    /\ timer_active(State)
    /\ nat = {"uv_timer_start"}

\* ---------------------------------------------------------------- C19
\* the state of the simulated watchers, their async watchers and the handles
simState ==
    <<smRegistered, smCallback, smPayload, smLastCb, asWatcher, asCallback,
      uvAsyncCb, uvRef, uvAsPending, uvType, uvClosing, uvActive,
      uvCloseCalls, uvClosePending, uvData, closingHandles, loopState>>

\* C19: assigning ref (True or False) on a watcher that has no native handle
\* raises nothing, makes no native call and changes nothing, and a start()
\* that follows it registers the watcher, stores the callback and arms the
\* async watcher as any start() does.
C19_RefWithoutHandleIsNoOp ==
    /\ [][lastOp'.op = "set_ref" /\ ~seen'.hadWatcher =>
            err' = "none" /\ nat' = {} /\ UNCHANGED simState]_vars
    /\ [][lastOp.op = "set_ref" /\ ~seen.hadWatcher
            /\ lastOp'.op = "sim_start" =>
            /\ smRegistered'[lastOp'.h]
            /\ smCallback'[lastOp'.h]
            /\ asWatcher[lastOp'.h] =>
                  err' = "none" /\ uvAsyncCb'[lastOp'.h]]_vars

\* ref = False was assigned on the fork watcher, which has no handle
C19_Witness ==
    /\ lastOp.op = "set_ref"
    /\ lastOp.h = "fork"
    /\ ~seen.hadWatcher
    /\ ~seen.value
    /\ err = "none"

\* ---------------------------------------------------------------- C20
\* C20: a OneShotCheck runs the user callback at most once per start():
\* when it fires it has stopped itself before the user callback runs (the
\* callback sees it inactive), and it is stopped afterwards whether or not
\* the callback raised, so the check phase does not reach it again until it
\* is started again.
C20_OneShotCheckRunsOncePerStart ==
    /\ oscRuns <= 1
    /\ lastOp.op = "check_fire" =>
          /\ ~oscSeenActive
          /\ ~uvActive["check"]
          /\ oscCallback = "None"
          /\ oscRuns = 1

\* the user callback raised
C20_Witness ==
    /\ lastOp.op = "check_fire"
    /\ err = "UserError"
    /\ oscRuns = 1

\* ---------------------------------------------------------------- C21
\* C21: after every multiplex(), MultiplexHandle.start(), stop() and close()
\* call that raised nothing, the IoWatcher is active exactly when at least
\* one sub-watcher in its list is started; closing a started sub-watcher
\* while never-started ones remain does not leave the owner armed.
C21_OwnerActiveIffSomeStarted ==
    lastOp.op \in {"multiplex", "mw_start", "mw_stop", "mw_close"}
        /\ err = "none" =>
        (active(State) <=> Started(State) # {})

\* ---------------------------------------------------------------- C22
\* C22: a dispatch invokes only sub-watchers that are in the list and started
\* (a stopped or closed one is not invoked until it is started again), and a
\* MultiplexHandle whose close() returned reports itself inactive (its
\* callback is cleared).
C22_NoCallbackAfterStopOrClose ==
    /\ \A i \in Subs : invoked[i] > 0 => i \in dispStarted
    /\ lastOp.op = "mw_close" /\ err = "none" =>
          mwCallback[lastOp.sub] = "None"

\* ---------------------------------------------------------------- C23
\* C23: MultiplexHandle.close() raises nothing in any reachable state when
\* no native call fails; a second close() of the same sub-watcher changes
\* nothing, and a close() after the owner was closed by IoWatcher.close()
\* requests no further native close.
C23_SubWatcherCloseNeverRaises ==
    lastOp.op = "mw_close" =>
        /\ err \in {"none", "UVFuncallError"}
        /\ ~lastOp.wasOpen => uvCloseCalls["poll"] = lastOp.closesBefore

\* ---------------------------------------------------------------- C24
\* the sub-watchers other than i keep their mask, callback (and the arguments
\* stored with it), pass_events flag and owner reference, the list keeps
\* their relative order, and the shared handle is neither closed nor stopped
\* nor started
FrameOfClose(i) ==
    /\ \A j \in Subs \ {i} :
          /\ mwEvents'[j] = mwEvents[j]
          /\ mwCallback'[j] = mwCallback[j]
          /\ mwPassEvents'[j] = mwPassEvents[j]
          /\ mwRef'[j] = mwRef[j]
          /\ mwHeld'[j] = mwHeld[j]
    /\ mwList' = SelectSeq(mwList, LAMBDA x : x # i)
    /\ Started(State)' = Started(State) \ {i}
    /\ uvCloseCalls' = uvCloseCalls
    /\ uvClosePending' = uvClosePending
    /\ uvClosing' = uvClosing
    /\ closingHandles' = closingHandles
    /\ ioWatcher' = ioWatcher
    /\ ioCallback' = ioCallback
    /\ uvActive' = uvActive
    /\ hasMW' = hasMW

\* C24: a MultiplexHandle.close() on a sub-watcher that is in the list of its
\* owner while at least one other is too changes nothing of the others (mask,
\* callback, arguments, started state), keeps their relative order and
\* requests no native close of the shared handle; only the mask of the owner
\* and the mask the handle is armed with may change.
C24_NonLastCloseFrame ==
    [][lastOp'.op = "mw_close" /\ mwRef[lastOp'.sub]
          /\ InList(mwList, lastOp'.sub) /\ Len(mwList) >= 2
       => FrameOfClose(lastOp'.sub)]_vars

\* the first of three sub-watchers was closed, the two others are started
\* and the mask of the owner changed
C24_Witness ==
    /\ lastOp.op = "mw_close"
    /\ lastOp.listBefore = <<1, 2, 3>>
    /\ lastOp.sub = 1
    /\ mwList = <<2, 3>>
    /\ Started(State) = {2, 3}
    /\ ioEvents # lastOp.eventsBefore
    /\ err = "none"

\* ---------------------------------------------------------------- C25
\* C25: an async watcher created with ref = True, whose ref was never
\* assigned, holds a reference on the loop whenever it is started (callback
\* set, async_cb installed), also when it was stopped and started again.
C25_StartedAsyncIsReffed ==
    \A w \in Sims :
        asWatcher[w] /\ asCallback[w] /\ uvAsyncCb[w] => uvRef[AsyncOf(w)]

====
